---- MODULE Spec2Model ----
(***************************************************************************)
(* Lintify: a browser utility that formats an uploaded source file or ZIP  *)
(* archive and, for archives, renders a README.                            *)
(*                                                                         *)
(* A JavaScript string is modelled as a sequence of characters.  A         *)
(* character is a one-element TLA+ string; a run of letters that no        *)
(* operation of the program ever looks inside ("py", "src", "Python") is   *)
(* written as one character.  Splitting, trimming, counting, lower-casing  *)
(* and joining are computed on these sequences the way the code computes   *)
(* them on strings.                                                        *)
(***************************************************************************)
EXTENDS Integers, Sequences, FiniteSets, TLC

VARIABLES fName, fContent, fRecord, fLabel,
          files, tree, treeMd, mainFile,
          ops, result, resultOf, completed, isLoading, file, isDragging

vars == <<fName, fContent, fRecord, fLabel, files, tree, treeMd, mainFile, ops, result, resultOf, completed, isLoading, file, isDragging>>

fileVars == <<fName, fContent, fRecord, fLabel>>

docVars == <<files, tree, treeMd, mainFile>>

uiVars == <<ops, result, resultOf, completed, isLoading, file, isDragging>>

(***************************************************************************)
(* Bounds of the model.                                                    *)
(***************************************************************************)
MaxTextLen == 4

MaxFiles == 3

MaxUploads == 2

(***************************************************************************)
(* Strings.                                                                *)
(***************************************************************************)
Max(a, b) == IF a >= b THEN a ELSE b

\* The characters String.prototype.trim removes, among those the model uses.
WhiteSpace == {" ", "\t", "\r", "\n"}

RECURSIVE SplitFrom(_, _, _, _)
SplitFrom(s, sep, i, cur) == IF i > Len(s) THEN <<cur>> ELSE IF s[i] = sep THEN <<cur>> \o SplitFrom(s, sep, i + 1, <<>>) ELSE SplitFrom(s, sep, i + 1, Append(cur, s[i]))

\* s.split(sep): always at least one piece; '' splits to [''].
Split(s, sep) == SplitFrom(s, sep, 1, <<>>)

\* s.split(sep).pop()
Pop(parts) == parts[Len(parts)]

RECURSIVE TrimLeft(_)
TrimLeft(s) == IF s # <<>> /\ Head(s) \in WhiteSpace THEN TrimLeft(Tail(s)) ELSE s

RECURSIVE TrimRight(_)
TrimRight(s) == IF s # <<>> /\ s[Len(s)] \in WhiteSpace THEN TrimRight(SubSeq(s, 1, Len(s) - 1)) ELSE s

\* line.trim()
Trim(s) == TrimRight(TrimLeft(s))

\* (line.match(/c/g) || []).length
CountChar(s, c) == Cardinality({i \in 1..Len(s) : s[i] = c})

RECURSIVE Repeat(_, _)
Repeat(unit, n) == IF n <= 0 THEN <<>> ELSE unit \o Repeat(unit, n - 1)

RECURSIVE Join(_, _)
Join(lines, sep) == IF lines = <<>> THEN <<>> ELSE IF Len(lines) = 1 THEN lines[1] ELSE lines[1] \o <<sep>> \o Join(Tail(lines), sep)

RECURSIVE FilterNonEmpty(_)
\* lines.filter(line => line.length > 0)
FilterNonEmpty(lines) == IF lines = <<>> THEN <<>> ELSE IF Len(Head(lines)) > 0 THEN <<Head(lines)>> \o FilterNonEmpty(Tail(lines)) ELSE FilterNonEmpty(Tail(lines))

LowerChar(c) == CASE c = "PY" -> "py" [] c = "Main" -> "main" [] c = "README" -> "readme" [] c = "ZIP" -> "zip" [] OTHER -> c

\* s.toLowerCase()
ToLowerCase(s) == [i \in 1..Len(s) |-> LowerChar(s[i])]

\* s.endsWith(suffix)
EndsWith(s, suffix) == Len(s) >= Len(suffix) /\ SubSeq(s, Len(s) - Len(suffix) + 1, Len(s)) = suffix

(***************************************************************************)
(* utils/formatter.ts: the four line formatters.                           *)
(***************************************************************************)
\* code.split('\n').map(line => line.trim()).filter(line => line.length > 0)
TrimmedLines(code) == FilterNonEmpty([i \in 1..Len(Split(code, "\n")) |-> Trim(Split(code, "\n")[i])])

BraceLevelOpenOnly(line) == CountChar(line, "{")

\* (line.match(/{/g) || []).length - (line.match(/}/g) || []).length
BraceLevel(line) == CountChar(line, "{") - CountChar(line, "}")

\* (line.match(/:/g) || []).length
ColonLevel(line) == CountChar(line, ":")

\* The indent level of a line under the brace rule or the colon rule.
LevelOf(rule, line) == IF rule = "colon" THEN ColonLevel(line) ELSE BraceLevel(line)

\* .map(line => unit.repeat(Math.max(0, indentLevel)) + line)
IndentLines(lines, unit, rule) == [i \in 1..Len(lines) |-> Repeat(unit, Max(0, LevelOf(rule, lines[i]))) \o lines[i]]

formatJavaScript(code) == Join(IndentLines(TrimmedLines(code), <<" ", " ">>, "brace"), "\n")

formatJava(code) == Join(IndentLines(TrimmedLines(code), <<" ", " ", " ", " ">>, "brace"), "\n")

formatPython(code) == Join(IndentLines(TrimmedLines(code), <<" ", " ", " ", " ">>, "colon"), "\n")

formatC(code) == Join(IndentLines(TrimmedLines(code), <<" ", " ", " ", " ">>, "brace"), "\n")

\* filename.split('.').pop()?.toLowerCase() || ''
ExtOf(filename) == ToLowerCase(Pop(Split(filename, ".")))

FormatterKeys == {<<"js">>, <<"jsx">>, <<"ts">>, <<"tsx">>, <<"java">>, <<"py">>, <<"c">>, <<"cpp">>, <<"h">>, <<"hpp">>}

\* The routine getFormatter selects, by name; "identity" is (code) => code.
getFormatter(filename) == LET ext == ExtOf(filename) IN CASE ext \in {<<"js">>, <<"jsx">>, <<"ts">>, <<"tsx">>} -> "formatJavaScript" [] ext = <<"java">> -> "formatJava" [] ext = <<"py">> -> "formatPython" [] ext \in {<<"c">>, <<"cpp">>, <<"h">>, <<"hpp">>} -> "formatC" [] OTHER -> "identity"

ApplyFormatter(formatter, code) == CASE formatter = "formatJavaScript" -> formatJavaScript(code) [] formatter = "formatJava" -> formatJava(code) [] formatter = "formatPython" -> formatPython(code) [] formatter = "formatC" -> formatC(code) [] OTHER -> code

\* The FileInfo record formatCode builds for one file.
FileRecord(name, path, content) == [name |-> name, content |-> content, path |-> path, formatted |-> ApplyFormatter(getFormatter(name), content)]

(***************************************************************************)
(* utils/readme-generator.ts: the display label of a file name.            *)
(***************************************************************************)
TypeMapKeys == {<<"js">>, <<"jsx">>, <<"ts">>, <<"tsx">>, <<"css">>, <<"scss">>, <<"html">>, <<"json">>, <<"md">>, <<"py">>, <<"java">>, <<"cpp">>, <<"c">>, <<"go">>, <<"rs">>, <<"php">>, <<"rb">>}

TypeMap(ext) == CASE ext = <<"js">> -> "JavaScript" [] ext = <<"jsx">> -> "React JSX" [] ext = <<"ts">> -> "TypeScript" [] ext = <<"tsx">> -> "React TypeScript" [] ext = <<"css">> -> "CSS" [] ext = <<"scss">> -> "SCSS" [] ext = <<"html">> -> "HTML" [] ext = <<"json">> -> "JSON" [] ext = <<"md">> -> "Markdown" [] ext = <<"py">> -> "Python" [] ext = <<"java">> -> "Java" [] ext = <<"cpp">> -> "C++" [] ext = <<"c">> -> "C" [] ext = <<"go">> -> "Go" [] ext = <<"rs">> -> "Rust" [] ext = <<"php">> -> "PHP" [] ext = <<"rb">> -> "Ruby"

\* typeMap[ext] || 'Plain text'.  typeMap is an object literal, so the key
\* "constructor" finds Object.prototype.constructor, which is truthy.
getFileType(filename) == LET ext == ExtOf(filename) IN IF ext \in TypeMapKeys THEN TypeMap(ext) ELSE IF ext = <<"constructor">> THEN "function Object() { [native code] }" ELSE "Plain text"

(***************************************************************************)
(* One file: formatCode's single-file branch and the classifier.           *)
(***************************************************************************)
FmtChars == {"{", "}", ":", " ", "\n", "x"}

Texts == UNION {[1..n -> FmtChars] : n \in 0..MaxTextLen}

FileNames == {<<"a", ".", "js">>, <<"a", ".", "tsx">>, <<"a", ".", "java">>, <<"a", ".", "py">>, <<"a", ".", "c">>, <<"a", ".", "hpp">>, <<"a", ".", "go">>, <<"a", ".", "txt">>, <<"a", ".", "PY">>, <<"a", ".", "b", ".", "py">>, <<"x", ".", "constructor">>, <<"Makefile">>, <<"py">>, <<"c">>, <<"go">>}

IdleFile == fName = <<>> /\ fContent = <<>> /\ fRecord = <<>> /\ fLabel = ""

IdleDoc == files = <<>> /\ tree = [t |-> "none"] /\ treeMd = [set |-> FALSE] /\ mainFile = [set |-> FALSE]

IdleUI == ops = <<>> /\ result = [null |-> TRUE] /\ resultOf = 0 /\ completed = <<>> /\ isLoading = FALSE /\ file = <<>> /\ isDragging = FALSE

InitFile == fName \in FileNames /\ fContent \in Texts /\ fRecord = <<>> /\ fLabel = "" /\ IdleDoc /\ IdleUI

\* formatCode, the branch for a file that is no archive: one record, path = name.
FormatSingleFile == fRecord = <<>> /\ fRecord' = <<FileRecord(fName, fName, fContent)>> /\ UNCHANGED <<fName, fContent, fLabel, docVars, uiVars>>

\* getFileType(file.name), as analyzeCodebase calls it.
Classify == fLabel = "" /\ fLabel' = getFileType(fName) /\ UNCHANGED <<fName, fContent, fRecord, docVars, uiVars>>

NextFile == FormatSingleFile \/ Classify

SpecFile == InitFile /\ [][NextFile]_vars

(***************************************************************************)
(* Properties of one file.                                                 *)
(***************************************************************************)
HasDot(name) == \E i \in 1..Len(name) : name[i] = "."

\* The extension as the specification words it: the lower-cased text after
\* the last '.', and none (written <<>>) for a name without a '.'.
Extension(name) == IF HasDot(name) THEN ToLowerCase(Pop(Split(name, "."))) ELSE <<>>

IsBlank(line) == \A i \in 1..Len(line) : line[i] \in WhiteSpace

NotBlank(line) == ~IsBlank(line)

IsBrace(c) == c = "{"

IsCloseBrace(c) == c = "}"

IsColon(c) == c = ":"

NetBraces(line) == Len(SelectSeq(line, IsBrace)) - Len(SelectSeq(line, IsCloseBrace))

Colons(line) == Len(SelectSeq(line, IsColon))

IndentWidth(name) == IF Extension(name) \in {<<"js">>, <<"jsx">>, <<"ts">>, <<"tsx">>} THEN 2 ELSE 4

LineLevel(name, line) == IF Extension(name) = <<"py">> THEN Colons(line) ELSE NetBraces(line)

KeptLines(text) == SelectSeq(Split(text, "\n"), NotBlank)

\* The lines of a formatted text; the empty text has none.
OutputLines(text) == IF text = <<>> THEN <<>> ELSE Split(text, "\n")

ExpectedLine(name, line) == [i \in 1..(IndentWidth(name) * Max(0, LineLevel(name, line))) |-> " "] \o Trim(line)

\* C5: for a js/jsx/ts/tsx, java/c/cpp/h/hpp or py file the formatted text is
\* exactly the input's non-blank lines, in order, each trimmed and indented by
\* max(0, level) units (2 spaces for the JS family, 4 otherwise; level = '{'
\* minus '}' on the line, or the count of ':' for py); so no output line is
\* blank and a line of negative level is not indented.
C5_FormatterLines == (fRecord # <<>> /\ Extension(fName) \in FormatterKeys) => LET out == OutputLines(fRecord[1].formatted) kept == KeptLines(fContent) IN /\ Len(out) = Len(kept) /\ \A k \in 1..Len(kept) : out[k] = ExpectedLine(fName, kept[k]) /\ ~IsBlank(out[k]) /\ (LineLevel(fName, kept[k]) < 0 => out[k] = Trim(kept[k]))

C5_Witness == fRecord # <<>> /\ Extension(fName) \in {<<"js">>, <<"tsx">>} /\ Len(KeptLines(fContent)) < Len(Split(fContent, "\n")) /\ (\E k \in 1..Len(KeptLines(fContent)) : NetBraces(KeptLines(fContent)[k]) < 0) /\ (\E k \in 1..Len(KeptLines(fContent)) : NetBraces(KeptLines(fContent)[k]) > 0)

\* C6: a file whose extension is none of js, jsx, ts, tsx, java, py, c, cpp,
\* h, hpp has formatted = content, character for character.
C6_IdentityForOtherExtensions == (fRecord # <<>> /\ Extension(fName) \notin FormatterKeys) => fRecord[1].formatted = fRecord[1].content

\* C7: a file name without a '.', or whose lower-cased text after the last
\* '.' is not a recognised extension, is labelled 'Plain text'.
C7_DefaultLabel == (fLabel # "" /\ (~HasDot(fName) \/ Extension(fName) \notin TypeMapKeys)) => fLabel = "Plain text"

(***************************************************************************)
(* utils/readme-generator.ts: the file tree.  A JavaScript value is a      *)
(* string, a number, undefined, or an object: the sequence of its own      *)
(* [k, v] entries in insertion order (no key of the model is an integer    *)
(* index, which JavaScript would enumerate first).                         *)
(***************************************************************************)
Str(s) == [t |-> "str", s |-> s]

Num(n) == [t |-> "num", n |-> n]

Obj(entries) == [t |-> "obj", e |-> entries]

Undefined == [t |-> "undef"]

\* A TypeError thrown while the value was being built.
Thrown == [t |-> "throw"]

HasKey(obj, key) == \E i \in 1..Len(obj.e) : obj.e[i].k = key

\* obj[key]
Get(obj, key) == IF HasKey(obj, key) THEN obj.e[CHOOSE i \in 1..Len(obj.e) : obj.e[i].k = key].v ELSE Undefined

\* obj[key] = value: an existing key keeps its place, a new one goes last.
Set(obj, key, value) == IF HasKey(obj, key) THEN Obj([i \in 1..Len(obj.e) |-> IF obj.e[i].k = key THEN [k |-> key, v |-> value] ELSE obj.e[i]]) ELSE Obj(Append(obj.e, [k |-> key, v |-> value]))

Truthy(v) == CASE v.t = "obj" -> TRUE [] v.t = "str" -> v.s # "" [] v.t = "num" -> v.n # 0 [] OTHER -> FALSE

\* { type: getFileType(part), size: file.content.length }
Leaf(part, content) == Obj(<<[k |-> <<"type">>, v |-> Str(getFileType(part))], [k |-> <<"size">>, v |-> Num(Len(content))]>>)

RECURSIVE InsertParts(_, _, _, _)
\* parts.forEach((part, index) => ...) from index i on, with current = the
\* given value.  The module is strict code: a property assignment on a string
\* or a number throws a TypeError.
InsertParts(current, parts, i, content) == IF current.t # "obj" THEN Thrown ELSE IF i = Len(parts) THEN Set(current, parts[i], Leaf(parts[i], content)) ELSE LET next == IF Truthy(Get(current, parts[i])) THEN Get(current, parts[i]) ELSE Obj(<<>>) sub == InsertParts(next, parts, i + 1, content) IN IF sub.t = "throw" THEN Thrown ELSE Set(current, parts[i], sub)

RECURSIVE BuildFrom(_, _, _)
BuildFrom(current, list, i) == IF i > Len(list) \/ current.t = "throw" THEN current ELSE BuildFrom(InsertParts(current, Split(list[i].path, "/"), 1, list[i].content), list, i + 1)

buildFileTree(list) == BuildFrom(Obj(<<>>), list, 1)

\* `${value.type}`
TypeText(v) == IF v.t = "str" THEN v.s ELSE "[object Object]"

RECURSIVE RenderEntries(_, _, _)
RECURSIVE generateTreeMarkdown(_, _)
RenderEntries(node, prefix, index) == IF index > Len(node.e) THEN <<>> ELSE LET name == node.e[index].k value == node.e[index].v isLast == index = Len(node.e) connector == IF isLast THEN "+-- " ELSE "|-- " newPrefix == prefix \o <<IF isLast THEN "    " ELSE "|   ">> isLeaf == value.t = "obj" /\ Truthy(Get(value, <<"type">>)) line == prefix \o <<connector>> \o name \o (IF isLeaf THEN <<" (", TypeText(Get(value, <<"type">>)), ")">> ELSE <<>>) \o <<"\n">> IN line \o (IF isLeaf THEN <<>> ELSE generateTreeMarkdown(value, newPrefix)) \o RenderEntries(node, prefix, index + 1)

\* The box-drawing connectors are written in ASCII: "|-- ", "+-- " (last), "|   ".
generateTreeMarkdown(node, prefix) == RenderEntries(node, prefix, 1)

mainFilePatterns == <<<<"index", ".", "ts">>, <<"index", ".", "js">>, <<"main", ".", "py">>, <<"app", ".", "py">>, <<"server", ".", "js">>, <<"app", ".", "js">>, <<"index", ".", "html">>>>

\* files.find(f => f.name.toLowerCase() === pattern): the first such index, 0 if none.
FindByName(list, pattern) == IF \E i \in 1..Len(list) : ToLowerCase(list[i].name) = pattern THEN CHOOSE i \in 1..Len(list) : ToLowerCase(list[i].name) = pattern /\ \A j \in 1..(i - 1) : ToLowerCase(list[j].name) # pattern ELSE 0

RECURSIVE FindMainFrom(_, _)
FindMainFrom(list, p) == IF p > Len(mainFilePatterns) THEN [set |-> TRUE, found |-> FALSE] ELSE IF FindByName(list, mainFilePatterns[p]) # 0 THEN [set |-> TRUE, found |-> TRUE, file |-> list[FindByName(list, mainFilePatterns[p])]] ELSE FindMainFrom(list, p + 1)

\* A loop over the files first: the first file that matches any pattern.
findMainFileFirstFile(list) == IF \E i \in 1..Len(list) : \E p \in 1..Len(mainFilePatterns) : ToLowerCase(list[i].name) = mainFilePatterns[p] THEN [set |-> TRUE, found |-> TRUE, file |-> list[CHOOSE i \in 1..Len(list) : (\E p \in 1..Len(mainFilePatterns) : ToLowerCase(list[i].name) = mainFilePatterns[p]) /\ \A j \in 1..(i - 1) : \A p \in 1..Len(mainFilePatterns) : ToLowerCase(list[j].name) # mainFilePatterns[p]]] ELSE [set |-> TRUE, found |-> FALSE]

findMainFile(list) == FindMainFrom(list, 1)

(***************************************************************************)
(* One file list: the helpers generateReadme calls on it.                  *)
(***************************************************************************)
\* A FileInfo as the ingester builds it: name is the path's last segment.
DocFile(path, content) == [name |-> Pop(Split(path, "/")), content |-> content, path |-> path]

DocPool == {DocFile(<<"src", "/", "a", ".", "py">>, <<"x">>), DocFile(<<"src", "/", "b", ".", "py">>, <<>>), DocFile(<<"README", ".", "md">>, <<"x", "\n">>), DocFile(<<"src", "/", "type">>, <<"x">>), DocFile(<<"a">>, <<"x">>), DocFile(<<"a", "/", "b">>, <<"x">>), DocFile(<<"a", "/", "type", "/", "b">>, <<>>), DocFile(<<"main", ".", "py">>, <<"x">>), DocFile(<<"lib", "/", "Main", ".", "py">>, <<>>), DocFile(<<"app", ".", "py">>, <<"x">>)}

DistinctPaths(list) == \A i, j \in 1..Len(list) : i # j => list[i].path # list[j].path

DocLists == {list \in UNION {[1..n -> DocPool] : n \in 0..MaxFiles} : DistinctPaths(list)}

InitDoc == files \in DocLists /\ tree = [t |-> "none"] /\ treeMd = [set |-> FALSE] /\ mainFile = [set |-> FALSE] /\ IdleFile /\ IdleUI

TreeText(t) == IF t.t = "obj" THEN [set |-> TRUE, text |-> generateTreeMarkdown(t, <<>>)] ELSE [set |-> FALSE]

\* const tree = buildFileTree(files)
BuildFileTree == tree.t = "none" /\ tree' = buildFileTree(files) /\ UNCHANGED <<files, treeMd, mainFile, fileVars, uiVars>>

\* ${generateTreeMarkdown(tree)}
GenerateTreeMarkdown == tree.t = "obj" /\ ~treeMd.set /\ treeMd' = TreeText(tree) /\ UNCHANGED <<files, tree, mainFile, fileVars, uiVars>>

\* const mainFile = findMainFile(files)
FindMainFile == ~mainFile.set /\ mainFile' = findMainFile(files) /\ UNCHANGED <<files, tree, treeMd, fileVars, uiVars>>

\* The same records in another order, and the helpers called again on them.
Reorder ==
  \E i \in 1..(Len(files) - 1) :
    LET swapped == [files EXCEPT ![i] = files[i + 1], ![i + 1] = files[i]]
        rebuilt == buildFileTree(swapped)
    IN /\ files' = swapped
       /\ tree' = (IF tree.t = "none" THEN tree ELSE rebuilt)
       /\ treeMd' = (IF treeMd.set THEN TreeText(rebuilt) ELSE treeMd)
       /\ mainFile' = (IF mainFile.set THEN findMainFile(swapped) ELSE mainFile)
       /\ UNCHANGED <<fileVars, uiVars>>

NextDoc == BuildFileTree \/ GenerateTreeMarkdown \/ FindMainFile \/ Reorder

SpecDoc == InitDoc /\ [][NextDoc]_vars

(***************************************************************************)
(* Properties of one file list.                                            *)
(***************************************************************************)
\* The lines of the rendered tree, each without its final newline.
TreeLines == IF treeMd.text = <<>> THEN <<>> ELSE SubSeq(Split(treeMd.text, "\n"), 1, Len(Split(treeMd.text, "\n")) - 1)

RECURSIVE LineDepth(_)
LineDepth(line) == IF line # <<>> /\ Head(line) \in {"|   ", "    "} THEN 1 + LineDepth(Tail(line)) ELSE 0

\* A line's text after its prefix and its connector.
LineRest(line) == SubSeq(line, LineDepth(line) + 2, Len(line))

IsLeafLine(line) == Len(LineRest(line)) >= 3 /\ line[Len(line)] = ")" /\ line[Len(line) - 2] = " ("

LineName(line) == IF IsLeafLine(line) THEN SubSeq(LineRest(line), 1, Len(LineRest(line)) - 3) ELSE LineRest(line)

LineLabel(line) == line[Len(line) - 1]

\* The line a line is nested under: the nearest earlier line one level up.
ParentLine(lines, i) == CHOOSE j \in 1..(i - 1) : LineDepth(lines[j]) = LineDepth(lines[i]) - 1 /\ \A k \in (j + 1)..(i - 1) : LineDepth(lines[k]) >= LineDepth(lines[i])

RECURSIVE LinePath(_, _)
LinePath(lines, i) == IF LineDepth(lines[i]) = 0 THEN <<LineName(lines[i])>> ELSE Append(LinePath(lines, ParentLine(lines, i)), LineName(lines[i]))

Segments(f) == Split(f.path, "/")

LeafLinesOf(f) == {i \in 1..Len(TreeLines) : IsLeafLine(TreeLines[i]) /\ LinePath(TreeLines, i) = Segments(f)}

IsProperPrefix(p, q) == Len(p) < Len(q) /\ SubSeq(q, 1, Len(p)) = p

ShownOnceAsLeaf(f) ==
  /\ Cardinality(LeafLinesOf(f)) = 1
  /\ \A i \in LeafLinesOf(f) : LineName(TreeLines[i]) = f.name /\ LineLabel(TreeLines[i]) = getFileType(f.name)

UnderDirectories(f) ==
  \A k \in 1..(Len(Segments(f)) - 1) :
    /\ (\E i \in 1..Len(TreeLines) : ~IsLeafLine(TreeLines[i]) /\ LinePath(TreeLines, i) = SubSeq(Segments(f), 1, k))
    /\ ~(\E i \in 1..Len(TreeLines) : IsLeafLine(TreeLines[i]) /\ LinePath(TreeLines, i) = SubSeq(Segments(f), 1, k))

OnlyRecordsAndTheirDirectories == \A i \in 1..Len(TreeLines) : \E j \in 1..Len(files) : IF IsLeafLine(TreeLines[i]) THEN LinePath(TreeLines, i) = Segments(files[j]) ELSE IsProperPrefix(LinePath(TreeLines, i), Segments(files[j]))

\* C8: for records with pairwise distinct paths, in any order, the rendered
\* tree shows every record exactly once as a leaf line `name (label)` under a
\* directory line for each intermediate segment; no record is lost or shown
\* as a directory, and no directory is shown as a leaf.
C8_TreeShowsEveryRecord ==
  (treeMd.set /\ DistinctPaths(files)) =>
    /\ (\A j \in 1..Len(files) : ShownOnceAsLeaf(files[j]) /\ UnderDirectories(files[j]))
    /\ OnlyRecordsAndTheirDirectories

LowerNames == {ToLowerCase(files[i].name) : i \in 1..Len(files)}

Matched == {p \in 1..Len(mainFilePatterns) : mainFilePatterns[p] \in LowerNames}

FirstMatched == CHOOSE p \in Matched : \A q \in Matched : p <= q

\* C9: findMainFile returns a record of the list whose lower-cased name is
\* the earliest entry of the priority list that any record matches, whatever
\* the list order, and null exactly when no record matches any entry.
C9_MainFileByPriority ==
  mainFile.set =>
    /\ (~mainFile.found <=> Matched = {})
    /\ (mainFile.found =>
          /\ (\E i \in 1..Len(files) : files[i] = mainFile.file)
          /\ ToLowerCase(mainFile.file.name) = mainFilePatterns[FirstMatched])

C9_Witness == mainFile.set /\ mainFile.found /\ Cardinality(Matched) >= 2 /\ files[1] # mainFile.file /\ ToLowerCase(files[1].name) \in {mainFilePatterns[p] : p \in Matched}

(***************************************************************************)
(* App: uploads, the processFile operations in flight, and the result.     *)
(*                                                                         *)
(* ops[i] is the i-th processFile call, in start order.  resultOf (the     *)
(* call whose setResult wrote result, 0 for none) and completed (the calls *)
(* in completion order) are history variables.                             *)
(***************************************************************************)
ZipEntry(path, dir, content) == [path |-> path, dir |-> dir, content |-> content]

SingleUpload(name, content) == [name |-> name, content |-> content, entries |-> <<>>]

\* An archive, with its entries in the order Object.entries(zipContent.files)
\* gives them.  The archive reader marks as a directory every entry whose name
\* ends in '/', and gives no entry an empty name.
ZipUpload(name, entries) == [name |-> name, content |-> <<>>, entries |-> entries]

Uploads == {SingleUpload(<<"main", ".", "js">>, <<" ", "{", "\n", "}">>), SingleUpload(<<"a", ".", "js">>, <<" ", "\n">>), ZipUpload(<<"p", ".", "zip">>, <<ZipEntry(<<"src", "/">>, TRUE, <<>>), ZipEntry(<<"src", "/", "a", ".", "py">>, FALSE, <<"x", ":">>), ZipEntry(<<"README", ".", "md">>, FALSE, <<"x">>)>>), ZipUpload(<<"q", ".", "zip">>, <<ZipEntry(<<"a">>, FALSE, <<"x">>), ZipEntry(<<"a", "/", "type", "/", "b">>, FALSE, <<>>)>>), ZipUpload(<<"e", ".", "zip">>, <<>>)}

\* name.endsWith('.zip')
IsZip(name) == EndsWith(name, <<".", "zip">>)

NextEntryAny(entries, from) == from

\* for (const [path, zipFile] of ...) if (!zipFile.dir): the next entry that
\* is no directory, from index `from` on; Len(entries) + 1 when none is left.
NextFileEntry(entries, from) == IF \E k \in from..Len(entries) : ~entries[k].dir THEN CHOOSE k \in from..Len(entries) : ~entries[k].dir /\ \A j \in from..(k - 1) : entries[j].dir ELSE Len(entries) + 1

\* const name = path.split('/').pop() || ''; files.push({name, content, path, formatted})
EntryRecord(entry) == FileRecord(Pop(Split(entry.path, "/")), entry.path, entry.content)

NewOp(upload) == [upload |-> upload, pc |-> IF IsZip(upload.name) THEN "loadAsync" ELSE "text", idx |-> 0, files |-> <<>>, readme |-> [t |-> "none"], failed |-> FALSE]

\* The part of generateReadme's template the model keeps: the rendered tree,
\* the file count and the main file.  A throwing helper makes the call throw.
generateReadme(list) == IF buildFileTree(list).t = "throw" THEN Thrown ELSE [t |-> "str", tree |-> generateTreeMarkdown(buildFileTree(list), <<>>), count |-> Len(list), main |-> findMainFile(list)]

\* f.formatted || f.content: the empty string is falsy.
Shown(f) == IF f.formatted # <<>> THEN f.formatted ELSE f.content

RECURSIVE FromEntries(_, _)
\* Object.fromEntries(files.map(f => [f.path, f.formatted || f.content]))
FromEntries(list, i) == IF i = 0 THEN Obj(<<>>) ELSE Set(FromEntries(list, i - 1), list[i].path, Shown(list[i]))

SuccessResult(op) == IF IsZip(op.upload.name) THEN [readme |-> op.readme, formatted |-> FromEntries(op.files, Len(op.files))] ELSE [formatted |-> Obj(<<[k |-> op.upload.name, v |-> Shown(op.files[1])]>>)]

ErrorResultWithPartial(op) == [error |-> "Error processing file", formatted |-> FromEntries(op.files, Len(op.files))]

\* setResult({ error: 'Error processing file' })
ErrorResult(op) == [error |-> "Error processing file"]

AfterSetResultIfLatest(i, value) == IF i = Len(ops) THEN [value |-> value, of |-> i] ELSE [value |-> result, of |-> resultOf]

AfterSetResultMerged(i, value) == [value |-> IF "null" \in DOMAIN result THEN value ELSE [k \in DOMAIN result \cup DOMAIN value |-> IF k \in DOMAIN value THEN value[k] ELSE result[k]], of |-> i]

\* setResult(value), called by operation i: the state is replaced, whatever
\* it held and whichever operation started last.
AfterSetResult(i, value) == [value |-> value, of |-> i]

InitUI == ops = <<>> /\ result = [null |-> TRUE] /\ resultOf = 0 /\ completed = <<>> /\ isLoading = FALSE /\ file = <<>> /\ isDragging = FALSE /\ IdleFile /\ IdleDoc

\* setFile(f); processFile(f), up to processFile's first await.
StartUpload(upload) ==
  /\ Len(ops) < MaxUploads
  /\ file' = upload.name
  /\ ops' = Append(ops, NewOp(upload))
  /\ isLoading' = TRUE

DragOver == isDragging' = TRUE /\ UNCHANGED <<ops, result, resultOf, completed, isLoading, file, fileVars, docVars>>

DragLeave == isDragging' = FALSE /\ UNCHANGED <<ops, result, resultOf, completed, isLoading, file, fileVars, docVars>>

\* The drop zone is always mounted.
HandleDrop == \E upload \in Uploads : StartUpload(upload) /\ isDragging' = FALSE /\ UNCHANGED <<result, resultOf, completed, fileVars, docVars>>

\* A drop that carries no file.
HandleDropNoFile == isDragging /\ isDragging' = FALSE /\ UNCHANGED <<ops, result, resultOf, completed, isLoading, file, fileVars, docVars>>

\* The file input is rendered only while isLoading is false.
HandleFileInput == \E upload \in Uploads : ~isLoading /\ StartUpload(upload) /\ UNCHANGED <<isDragging, result, resultOf, completed, fileVars, docVars>>

InPc(i, pc) == i \in 1..Len(ops) /\ ops[i].pc = pc

UpdateOp(i, op) == ops' = [ops EXCEPT ![i] = op] /\ UNCHANGED <<result, resultOf, completed, isLoading, file, isDragging, fileVars, docVars>>

\* The pc after the loop has reached entry index k.
LoopPc(op, k) == IF k > Len(op.upload.entries) THEN "resolved" ELSE "entries"

\* await zip.loadAsync(file) resolves; the loop runs to its first await.
LoadAsyncOk == \E i \in 1..Len(ops) : InPc(i, "loadAsync") /\ LET k == NextFileEntry(ops[i].upload.entries, 1) IN UpdateOp(i, [ops[i] EXCEPT !.idx = k, !.pc = LoopPc(ops[i], k)])

\* await zip.loadAsync(file) rejects: throw new Error('Failed to process ZIP file')
LoadAsyncFail == \E i \in 1..Len(ops) : InPc(i, "loadAsync") /\ UpdateOp(i, [ops[i] EXCEPT !.pc = "rejected", !.failed = TRUE])

\* await zipFile.async('string') resolves: the record is pushed and the loop
\* runs to its next await or to return files.
DecodeOk == \E i \in 1..Len(ops) : InPc(i, "entries") /\ LET k == NextFileEntry(ops[i].upload.entries, ops[i].idx + 1) IN UpdateOp(i, [ops[i] EXCEPT !.files = Append(@, EntryRecord(ops[i].upload.entries[ops[i].idx])), !.idx = k, !.pc = LoopPc(ops[i], k)])

\* await zipFile.async('string') rejects: throw new Error('Failed to process ZIP file')
DecodeFail == \E i \in 1..Len(ops) : InPc(i, "entries") /\ UpdateOp(i, [ops[i] EXCEPT !.pc = "rejected", !.failed = TRUE])

\* await file.text() resolves: formatCode returns its one record.
TextOk == \E i \in 1..Len(ops) : InPc(i, "text") /\ UpdateOp(i, [ops[i] EXCEPT !.files = <<FileRecord(ops[i].upload.name, ops[i].upload.name, ops[i].upload.content)>>, !.pc = "resolved"])

\* await file.text() rejects.
TextFail == \E i \in 1..Len(ops) : InPc(i, "text") /\ UpdateOp(i, [ops[i] EXCEPT !.pc = "rejected", !.failed = TRUE])

\* await formatCode(..) resolves for an archive: generateReadme(files) runs.
CallGenerateReadme == \E i \in 1..Len(ops) : InPc(i, "resolved") /\ IsZip(ops[i].upload.name) /\ LET readme == generateReadme(ops[i].files) IN UpdateOp(i, IF readme.t = "throw" THEN [ops[i] EXCEPT !.pc = "rejected", !.failed = TRUE] ELSE [ops[i] EXCEPT !.pc = "readme", !.readme = readme])

Finish(i, value) ==
  /\ result' = AfterSetResult(i, value).value
  /\ resultOf' = AfterSetResult(i, value).of
  /\ completed' = Append(completed, i)
  /\ isLoading' = FALSE
  /\ ops' = [ops EXCEPT ![i].pc = "done"]
  /\ UNCHANGED <<file, isDragging, fileVars, docVars>>

\* setResult({readme, formatted}) or setResult({formatted}); finally setIsLoading(false)
CompleteOk == \E i \in 1..Len(ops) : (InPc(i, "readme") \/ (InPc(i, "resolved") /\ ~IsZip(ops[i].upload.name))) /\ Finish(i, SuccessResult(ops[i]))

\* catch: setResult({error}); finally setIsLoading(false)
CompleteError == \E i \in 1..Len(ops) : InPc(i, "rejected") /\ Finish(i, ErrorResult(ops[i]))

NextUI == DragOver \/ DragLeave \/ HandleDrop \/ HandleDropNoFile \/ HandleFileInput \/ LoadAsyncOk \/ LoadAsyncFail \/ DecodeOk \/ DecodeFail \/ TextOk \/ TextFail \/ CallGenerateReadme \/ CompleteOk \/ CompleteError

Spec == InitUI /\ [][NextUI]_vars

(***************************************************************************)
(* Properties of uploads.                                                  *)
(***************************************************************************)
AllDone == \A i \in 1..Len(ops) : ops[i].pc = "done"

InFlight(i) == ops[i].pc # "done"

\* C1: uploads are not sequenced.  Whatever the start order, the result
\* shown is the outcome of the operation that completed last; so when A
\* completes after a later-started B, the final result is A's.
C1_LastCompletionWins ==
  /\ (completed = <<>> => resultOf = 0)
  /\ (completed # <<>> =>
        /\ resultOf = completed[Len(completed)]
        /\ result = (IF ops[resultOf].failed THEN ErrorResult(ops[resultOf]) ELSE SuccessResult(ops[resultOf])))

C1_Witness ==
  /\ Len(ops) = 2 /\ AllDone /\ completed = <<2, 1>> /\ resultOf = 1
  /\ ~ops[1].failed /\ ~ops[2].failed
  /\ result = SuccessResult(ops[1]) /\ result # SuccessResult(ops[2])

\* C2: when ingestion (opening the archive, decoding any entry, reading the
\* file) or README generation fails, the operation's completion sets the
\* result to exactly {error: 'Error processing file'}: no readme and no
\* formatted entries, whatever had been ingested before the failure.
C2_FailureGivesOnlyError ==
  \A i \in 1..Len(ops) :
    (ops[i].failed /\ resultOf = i) =>
      /\ DOMAIN result = {"error"}
      /\ result.error = "Error processing file"

C2_Witness == \E i \in 1..Len(ops) : ops[i].failed /\ resultOf = i /\ ops[i].pc = "done" /\ Len(ops[i].files) >= 1 /\ Len(ops[i].files) < Len(SelectSeq(ops[i].upload.entries, LAMBDA e : ~e.dir))

FileEntries(upload) == SelectSeq(upload.entries, LAMBDA e : ~e.dir)

Keys(obj) == [k \in 1..Len(obj.e) |-> obj.e[k].k]

\* C3: the held result is the complete outcome of exactly one operation: null
\* before any completion, or only {error}, or only {formatted} with the one
\* key of a non-ZIP upload, or {readme, formatted} of one ZIP upload; nothing
\* of an earlier result survives a later completion.
C3_ResultOfOneOperation ==
  \/ result = [null |-> TRUE] /\ completed = <<>>
  \/ /\ resultOf \in 1..Len(ops)
     /\ LET op == ops[resultOf] IN
          \/ DOMAIN result = {"error"} /\ result.error = "Error processing file"
          \/ /\ DOMAIN result = {"formatted"}
             /\ ~IsZip(op.upload.name)
             /\ Keys(result.formatted) = <<op.upload.name>>
          \/ /\ DOMAIN result = {"readme", "formatted"}
             /\ IsZip(op.upload.name)
             /\ result.readme = op.readme
             /\ result.readme.t = "str"
             /\ Keys(result.formatted) = [k \in 1..Len(FileEntries(op.upload)) |-> FileEntries(op.upload)[k].path]

C3_Witness ==
  /\ Len(completed) = 2
  /\ DOMAIN result = {"error"}
  /\ ~ops[completed[1]].failed
  /\ IsZip(ops[completed[1]].upload.name)

\* C4: every record formatCode has built has a non-empty path whose last
\* '/'-separated segment is its name; an archive's records are those of its
\* entries that are no directory, in enumeration order, and a single file
\* gives one record.
C4_RecordsOfFileEntries ==
  \A i \in 1..Len(ops) :
    LET op == ops[i] IN
      /\ \A k \in 1..Len(op.files) :
           /\ op.files[k].path # <<>>
           /\ Pop(Split(op.files[k].path, "/")) = op.files[k].name
      /\ IF IsZip(op.upload.name)
         THEN /\ Len(op.files) <= Len(FileEntries(op.upload))
              /\ \A k \in 1..Len(op.files) : ~FileEntries(op.upload)[k].dir /\ op.files[k].path = FileEntries(op.upload)[k].path /\ op.files[k].content = FileEntries(op.upload)[k].content
              /\ (op.pc \in {"resolved", "readme"} => Len(op.files) = Len(FileEntries(op.upload)))
         ELSE /\ Len(op.files) <= 1
              /\ (op.pc = "resolved" => Len(op.files) = 1 /\ op.files[1].path = op.upload.name)

C4_Witness == \E i \in 1..Len(ops) : ops[i].pc = "resolved" /\ Len(ops[i].files) = 2 /\ \E k \in 1..Len(ops[i].upload.entries) : ops[i].upload.entries[k].dir

\* C10: while at least one processFile operation has started and not yet
\* completed, isLoading is true.
C10_LoadingWhileInFlight == (\E i \in 1..Len(ops) : InFlight(i)) => isLoading

====
